---- MODULE Spec2Model ----
(***************************************************************************)
(* Git Tools MCP server: the capability list handed to the registry by     *)
(* GitToolsMcpServer's constructor, the dispatch of List / Invoke          *)
(* requests, and the two process entry points (stdio and SSE).             *)
(***************************************************************************)
EXTENDS Integers, Sequences, FiniteSets, TLC

\* ------------------------------------------------------------------ bounds
MaxAllow == 2

MaxSessions == 2

MaxRequests == 2

MaxChanges == 1

\* --------------------------------------------------------- tool definitions
ReadOnlyAnnotations ==
  [readOnlyHint |-> TRUE, destructiveHint |-> FALSE,
   idempotentHint |-> TRUE, openWorldHint |-> FALSE]

\* z.object({ path: z.string() })
PathSchema ==
  << [field |-> "path", type |-> "string", optional |-> FALSE] >>

\* z.object({ path: z.string(), maxCount: z.number().optional() })
PathMaxCountSchema ==
  << [field |-> "path", type |-> "string", optional |-> FALSE],
     [field |-> "maxCount", type |-> "number", optional |-> TRUE] >>

\* Faulty variants of the schemas: path declared with .optional()
OptionalPathSchema ==
  << [field |-> "path", type |-> "string", optional |-> TRUE] >>

OptionalPathMaxCountSchema ==
  << [field |-> "path", type |-> "string", optional |-> TRUE],
     [field |-> "maxCount", type |-> "number", optional |-> TRUE] >>

getGitReposTool ==
  [name |-> "get_git_repos_from_path", inputSchema |-> PathSchema,
   annotations |-> ReadOnlyAnnotations]

getCurrentBranchToolOptionalPath ==
  [name |-> "get_current_branch", inputSchema |-> OptionalPathSchema,
   annotations |-> ReadOnlyAnnotations]

getCurrentBranchTool ==
  [name |-> "get_current_branch", inputSchema |-> PathSchema,
   annotations |-> ReadOnlyAnnotations]

getStatusTool ==
  [name |-> "get_git_status", inputSchema |-> PathSchema,
   annotations |-> ReadOnlyAnnotations]

getLogToolOptionalPath ==
  [name |-> "get_git_log", inputSchema |-> OptionalPathMaxCountSchema,
   annotations |-> ReadOnlyAnnotations]

getLogTool ==
  [name |-> "get_git_log", inputSchema |-> PathMaxCountSchema,
   annotations |-> ReadOnlyAnnotations]

getRemotesTool ==
  [name |-> "get_git_remotes", inputSchema |-> PathSchema,
   annotations |-> ReadOnlyAnnotations]

getConfigTool ==
  [name |-> "get_git_config", inputSchema |-> PathSchema,
   annotations |-> ReadOnlyAnnotations]

\* A capability with destructiveHint = true. gitTools holds none; the
\* registry is built from such a list only when McpServer is constructed
\* directly.
destructiveTool ==
  [name |-> "destructive_tool", inputSchema |-> PathSchema,
   annotations |-> [readOnlyHint |-> FALSE, destructiveHint |-> TRUE,
                    idempotentHint |-> FALSE, openWorldHint |-> FALSE]]

\* The base list, by name, in declaration order.
gitTools ==
  << getGitReposTool.name, getCurrentBranchTool.name, getStatusTool.name,
     getLogTool.name, getRemotesTool.name, getConfigTool.name >>

\* The definition bound to a capability name.
ToolDefinition(name) ==
  CASE name = "get_git_repos_from_path" -> getGitReposTool
    [] name = "get_current_branch" -> getCurrentBranchTool
    [] name = "get_git_status" -> getStatusTool
    [] name = "get_git_log" -> getLogTool
    [] name = "get_git_remotes" -> getRemotesTool
    [] name = "get_git_config" -> getConfigTool
    [] OTHER -> destructiveTool

Range(s) == { s[i] : i \in 1..Len(s) }

\* Array.prototype.includes
includes(arr, x) == \E i \in 1..Len(arr) : arr[i] = x

\* ------------------------------------------- GitToolsMcpServer constructor
\* Faulty variant of the filter: the result follows the allow-list (its
\* order, its repetitions).
filterFollowingAllowList(availableTools) ==
  SelectSeq(availableTools, LAMBDA n : includes(gitTools, n))

\* Faulty variant of the filter: the allow-list is ignored.
filterNothing(availableTools) == gitTools

\* gitTools.filter((tool) => config.availableTools?.includes(tool.definition.name))
filterByAvailableTools(availableTools) ==
  SelectSeq(gitTools, LAMBDA n : includes(availableTools, n))

\* Faulty variant of the ternary: an empty allow-list is applied as a filter.
capabilitiesToolsAlwaysFiltered(cfg) ==
  IF cfg.availableTools.present
    THEN filterByAvailableTools(cfg.availableTools.v)
    ELSE gitTools

\* config.availableTools?.length
\*   ? config.availableTools?.length > 0 ? gitTools.filter(...) : gitTools
\*   : gitTools
capabilitiesTools(cfg) ==
  IF cfg.availableTools.present /\ Len(cfg.availableTools.v) # 0
    THEN IF Len(cfg.availableTools.v) > 0
           THEN filterByAvailableTools(cfg.availableTools.v)
           ELSE gitTools
    ELSE gitTools

\* Faulty variant of the default: the mode is "all".
toolsetModeDefaultAll(cfg) ==
  IF cfg.toolsetConfig = "undefined" THEN "all" ELSE cfg.toolsetConfig

\* config.toolsetConfig || { mode: "readOnly" }
toolsetMode(cfg) ==
  IF cfg.toolsetConfig = "undefined" THEN "readOnly" ELSE cfg.toolsetConfig

\* config.dynamicToolDiscovery || { enabled: true }
dynamicToolDiscoveryEnabled(cfg) ==
  IF cfg.dynamicToolDiscovery = "undefined"
    THEN TRUE
    ELSE cfg.dynamicToolDiscovery = "enabled"

\* ------------------------------------------------------------- handlers
\* const execAsync = promisify(exec): a handler awaiting it is suspended and
\* the event loop is free; "blocking" is an exec (execSync) that holds the
\* event loop until the command returns.
execBlocking == "blocking"

execAsync == "promise"

\* What a gitTools handler does once its external command has ended:
\* get_git_repos_from_path wraps its probes in try { } catch {}, every other
\* handler lets the rejection of execAsync propagate.
handler(name, exec) ==
  IF exec = "fail" /\ name # "get_git_repos_from_path"
    THEN "throws"
    ELSE "returns"

\* ------------------------------------------------ registry and dispatch
\* Toolset Policy: readOnly admits only capabilities whose destructiveHint
\* is false; all admits every capability.
isVisible(name, m) ==
  m = "all" \/ ~ToolDefinition(name).annotations.destructiveHint

\* Capability Registry list(): the visible capabilities, in registration order.
list(ts, m) == SelectSeq(ts, LAMBDA n : isVisible(n, m))

\* Capability Registry resolve(name): found iff listed.
resolve(name, ts, m) == includes(list(ts, m), name)

Fields == {"path", "maxCount"}

\* The first field of the schema that args does not satisfy, or "ok". Fields
\* the schema does not declare are stripped, not rejected.
RECURSIVE validate(_, _)
validate(schema, args) ==
  IF schema = << >> THEN "ok"
  ELSE LET f == Head(schema) IN
       IF args[f.field] = "absent"
         THEN IF f.optional THEN validate(Tail(schema), args) ELSE f.field
         ELSE IF args[f.field] = f.type
                THEN validate(Tail(schema), args)
                ELSE f.field

\* Invoke(name, args), steps 1 and 2: NotFound, ValidationError, or the
\* handler is called.
InvokeCapability(name, args, ts, m) ==
  IF ~resolve(name, ts, m)
    THEN [outcome |-> "NotFound", field |-> "none"]
    ELSE LET v == validate(ToolDefinition(name).inputSchema, args) IN
         IF v # "ok"
           THEN [outcome |-> "ValidationError", field |-> v]
           ELSE [outcome |-> "run", field |-> "none"]

\* Invoke step 4: the handler's result wrapped, or its failure caught and
\* classified.
handlerResult(name, exec) ==
  IF handler(name, exec) = "throws" THEN "ToolExecutionError" ELSE "content"

\* ------------------------------------------------------------------ state
VARIABLES
  ctor,        \* the class the server was constructed as
  config,      \* the constructor's argument
  mode,        \* the registry's toolset mode
  tools,       \* capabilities.tools, the list handed to the registry
  discovery,   \* dynamicToolDiscovery.enabled
  transport,   \* SSE entry point: the module-level "let transport"
  connected,   \* the transport the server was last connected to
  open,        \* the sessions whose stream is open
  reqs,        \* the requests of the clients, by correlation id
  sent,        \* the response envelopes, in the order they were sent
  notes,       \* the capability-list-changed signals emitted
  reconfigs,   \* the number of registry reconfigurations so far
  pc,          \* a handler called directly: the place it has reached
  start,       \* get_git_repos_from_path: require("path").resolve(path)
  repos,       \* the directories that hold a .git directory
  failed,      \* the directories at which a probe command has failed
  current,     \* get_git_repos_from_path: let current
  found,       \* get_git_repos_from_path: const found
  commits,     \* get_git_log: the number of commits of the repository at path
  maxCount,    \* get_git_log: the maxCount of the args
  stdout       \* get_git_log: the number of lines of the command's stdout

\* The variables of a handler called directly.
handlerVars ==
  << pc, start, repos, failed, current, found, commits, maxCount, stdout >>

vars ==
  << ctor, config, mode, tools, discovery, transport, connected, open,
     reqs, sent, notes, reconfigs, pc, start, repos, failed, current, found,
     commits, maxCount, stdout >>

\* args.maxCount: omitted, or a number.
Omitted == [present |-> FALSE, v |-> 0]

Supplied(n) == [present |-> TRUE, v |-> n]

\* No handler is being called directly.
NoHandlerCall ==
  /\ pc = "idle"
  /\ start = 0
  /\ repos = {}
  /\ failed = {}
  /\ current = 0
  /\ found = << >>
  /\ commits = 0
  /\ maxCount = Omitted
  /\ stdout = 0

\* let transport: SSEServerTransport | null = null
NoTransport == 0

Sessions == 1..MaxSessions

Absent == [present |-> FALSE, v |-> << >>]

Given(v) == [present |-> TRUE, v |-> v]

\* The names an allow-list or a request may hold: the base list's and one
\* that matches no capability.
Names == Range(gitTools) \cup {"destructive_tool", "no_such_tool"}

AllowNames == Range(gitTools) \cup {"no_such_tool"}

SeqsUpTo(S, n) == UNION { [1..k -> S] : k \in 0..n }

Configs ==
  [toolsetConfig : {"undefined", "readOnly", "all"},
   availableTools : {Absent} \cup { Given(a) : a \in SeqsUpTo(AllowNames, MaxAllow) },
   dynamicToolDiscovery : {"undefined", "enabled", "disabled"}]

ArgRecords == [Fields -> {"absent", "string", "number"}]

NoArgs == [f \in Fields |-> "absent"]

PathOnly == [f \in Fields |-> IF f = "path" THEN "string" ELSE "absent"]

\* new GitToolsMcpServer(cfg)
GitToolsMcpServer(cfg) ==
  /\ ctor = "GitToolsMcpServer"
  /\ config = cfg
  /\ mode = toolsetMode(cfg)
  /\ tools = capabilitiesTools(cfg)
  /\ discovery = dynamicToolDiscoveryEnabled(cfg)

\* new McpServer({ toolsetConfig: { mode: m }, capabilities: { tools: ts } })
McpServer(m, ts) ==
  /\ ctor = "McpServer"
  /\ config = [toolsetConfig |-> m, availableTools |-> Absent,
               dynamicToolDiscovery |-> "enabled"]
  /\ mode = m
  /\ tools = ts
  /\ discovery = TRUE

Request(s, kind, name, args) ==
  [session |-> s, kind |-> kind, name |-> name, args |-> args,
   state |-> "posted", via |-> NoTransport, exec |-> "none",
   handlerCalled |-> FALSE]

Response(i, on, result, field, l) ==
  [id |-> i, on |-> on, result |-> result, field |-> field, list |-> l]

\* The request as it is once the message has been dispatched: answered at
\* once (List, NotFound, ValidationError) or suspended in its handler.
dispatched(r, via, exec) ==
  IF r.kind = "list"
    THEN [r EXCEPT !.state = "done", !.via = via]
    ELSE IF InvokeCapability(r.name, r.args, tools, mode).outcome = "run"
           THEN [r EXCEPT !.state = "awaiting", !.via = via, !.exec = exec,
                          !.handlerCalled = TRUE]
           ELSE [r EXCEPT !.state = "done", !.via = via]

\* The response envelopes out, after request i, r, has been dispatched.
dispatchedSent(out, i, r, via) ==
  IF r.kind = "list"
    THEN Append(out, Response(i, via, "tools", "none", list(tools, mode)))
    ELSE LET o == InvokeCapability(r.name, r.args, tools, mode) IN
         IF o.outcome = "run"
           THEN out
           ELSE Append(out, Response(i, via, o.outcome, o.field, << >>))

\* What a client may send: a List, or an Invoke of a name with args.
Inputs ==
  {[kind |-> "list", name |-> "", args |-> NoArgs]}
    \cup [kind : {"invoke"}, name : Names, args : ArgRecords]

\* The same, over the names and args the SSE specification draws from.
SseInputs ==
  {[kind |-> "list", name |-> "", args |-> NoArgs]}
    \cup [kind : {"invoke"},
          name : {"get_current_branch", "get_git_repos_from_path", "no_such_tool"},
          args : {NoArgs, PathOnly}]

\* How the external command of a handler ends: it resolves, it rejects, or
\* it never returns.
ExecOutcomes == {"ok", "fail", "hang"}

\* No handler holds the event loop: every suspended handler awaits a promise.
EventLoopFree ==
  \A i \in DOMAIN reqs : reqs[i].state = "awaiting" => execAsync = "promise"

\* --------------------------------------------------- handler completion
\* await execAsync(...) resolves: the handler returns its content.
ExecResolve(i) ==
  /\ i \in DOMAIN reqs
  /\ reqs[i].state = "awaiting"
  /\ reqs[i].exec = "ok"
  /\ reqs' = [reqs EXCEPT ![i].state = "done"]
  /\ sent' = Append(sent, Response(i, reqs[i].via,
                                   handlerResult(reqs[i].name, "ok"), "none", << >>))
  /\ UNCHANGED << ctor, config, mode, tools, discovery, transport, connected,
                  open, notes, reconfigs >>
  /\ UNCHANGED handlerVars

\* await execAsync(...) rejects: the handler throws, or swallows the failure.
ExecReject(i) ==
  /\ i \in DOMAIN reqs
  /\ reqs[i].state = "awaiting"
  /\ reqs[i].exec = "fail"
  /\ reqs' = [reqs EXCEPT ![i].state = "done"]
  /\ sent' = Append(sent, Response(i, reqs[i].via,
                                   handlerResult(reqs[i].name, "fail"), "none", << >>))
  /\ UNCHANGED << ctor, config, mode, tools, discovery, transport, connected,
                  open, notes, reconfigs >>
  /\ UNCHANGED handlerVars

\* ------------------------------------------------- SSE entry point
\* app.get("/sse"): a new transport replaces the module-level one and the
\* server is connected to it.
Connect(s) ==
  /\ s \in Sessions \ open
  /\ EventLoopFree
  /\ transport' = s
  /\ connected' = s
  /\ open' = open \cup {s}
  /\ UNCHANGED << ctor, config, mode, tools, discovery, reqs, sent, notes,
                  reconfigs >>
  /\ UNCHANGED handlerVars

\* The client of session s sends a message to POST /messages.
Post(s, in) ==
  /\ s \in open
  /\ Len(reqs) < MaxRequests
  /\ reqs' = Append(reqs, Request(s, in.kind, in.name, in.args))
  /\ UNCHANGED << ctor, config, mode, tools, discovery, transport, connected,
                  open, sent, notes, reconfigs >>
  /\ UNCHANGED handlerVars

\* app.post("/messages"): if (transport) transport.handlePostMessage(req, res),
\* and the dispatch of the message up to the handler's await.
Handle(i, exec) ==
  /\ i \in DOMAIN reqs
  /\ reqs[i].state = "posted"
  /\ EventLoopFree
  /\ transport # NoTransport
  /\ reqs' = [reqs EXCEPT ![i] = dispatched(@, transport, exec)]
  /\ sent' = dispatchedSent(sent, i, reqs[i], transport)
  /\ UNCHANGED << ctor, config, mode, tools, discovery, transport, connected,
                  open, notes, reconfigs >>
  /\ UNCHANGED handlerVars

\* The registry is re-evaluated under another allow-list; with dynamic
\* discovery enabled and the advertised list changed, the signal is sent
\* on the transport the server is connected to.
Reconfigure(avail) ==
  /\ reconfigs < MaxChanges
  /\ EventLoopFree
  /\ LET cfg == [config EXCEPT !.availableTools = avail]
         changed == list(capabilitiesTools(cfg), mode) # list(tools, mode)
     IN /\ config' = cfg
        /\ tools' = capabilitiesTools(cfg)
        /\ notes' = IF discovery /\ changed
                      THEN Append(notes,
                             [attached |-> open,
                              to |-> {connected} \ {NoTransport},
                              changed |-> changed])
                      ELSE notes
  /\ reconfigs' = reconfigs + 1
  /\ UNCHANGED << ctor, mode, discovery, transport, connected, open, reqs, sent >>
  /\ UNCHANGED handlerVars

SseConfigs ==
  [toolsetConfig : {"undefined"},
   availableTools : {Absent},
   dynamicToolDiscovery : {"undefined", "disabled"}]

ReconfigureInputs == {Absent, Given(<< "get_current_branch" >>)}

Init ==
  /\ \E cfg \in SseConfigs : GitToolsMcpServer(cfg)
  /\ transport = NoTransport
  /\ connected = NoTransport
  /\ open = {}
  /\ reqs = << >>
  /\ sent = << >>
  /\ notes = << >>
  /\ reconfigs = 0
  /\ NoHandlerCall

Next ==
  \/ \E s \in Sessions : Connect(s)
  \/ \E s \in Sessions, in \in SseInputs : Post(s, in)
  \/ \E i \in 1..MaxRequests, exec \in ExecOutcomes : Handle(i, exec)
  \/ \E i \in 1..MaxRequests : ExecResolve(i)
  \/ \E i \in 1..MaxRequests : ExecReject(i)
  \/ \E a \in ReconfigureInputs : Reconfigure(a)

Spec == Init /\ [][Next]_vars

\* ------------------------------------------------- stdio entry point
\* The client of the one stdio session sends its message and the server
\* dispatches it up to the handler's await. The registry never changes, so
\* one exchange per behaviour covers every exchange of the session.
StdioRequest(in, exec) ==
  /\ reqs = << >>
  /\ reqs' = << dispatched(Request(connected, in.kind, in.name, in.args),
                           connected, exec) >>
  /\ sent' = dispatchedSent(<< >>, 1, Request(connected, in.kind, in.name, in.args),
                            connected)
  /\ UNCHANGED << ctor, config, mode, tools, discovery, transport, connected,
                  open, notes, reconfigs >>
  /\ UNCHANGED handlerVars

\* main(): the server is constructed and connected to the StdioServerTransport.
InitStdio ==
  /\ \/ \E cfg \in Configs : GitToolsMcpServer(cfg)
     \/ \E m \in {"readOnly", "all"} :
          McpServer(m, Append(gitTools, destructiveTool.name))
  /\ transport = NoTransport
  /\ connected = 1
  /\ open = {1}
  /\ reqs = << >>
  /\ sent = << >>
  /\ notes = << >>
  /\ reconfigs = 0
  /\ NoHandlerCall

NextStdio ==
  \/ \E in \in Inputs, exec \in ExecOutcomes : StdioRequest(in, exec)
  \/ ExecResolve(1)
  \/ ExecReject(1)

SpecStdio == InitStdio /\ [][NextStdio]_vars

\* ------------------------------- stdio entry point, concurrent requests
ConcurrentInputs ==
  {[kind |-> "list", name |-> "", args |-> NoArgs],
   [kind |-> "invoke", name |-> "get_current_branch", args |-> PathOnly],
   [kind |-> "invoke", name |-> "get_git_repos_from_path", args |-> PathOnly],
   [kind |-> "invoke", name |-> "get_git_log", args |-> NoArgs]}

\* The stdio transport delivers message i to the server, which dispatches it
\* up to the handler's await.
Receive(i, exec) ==
  /\ i \in DOMAIN reqs
  /\ reqs[i].state = "posted"
  /\ EventLoopFree
  /\ reqs' = [reqs EXCEPT ![i] = dispatched(@, connected, exec)]
  /\ sent' = dispatchedSent(sent, i, reqs[i], connected)
  /\ UNCHANGED << ctor, config, mode, tools, discovery, transport, connected,
                  open, notes, reconfigs >>
  /\ UNCHANGED handlerVars

InitConcurrent ==
  /\ GitToolsMcpServer([toolsetConfig |-> "undefined", availableTools |-> Absent,
                        dynamicToolDiscovery |-> "undefined"])
  /\ transport = NoTransport
  /\ connected = 1
  /\ open = {1}
  /\ reqs = << >>
  /\ sent = << >>
  /\ notes = << >>
  /\ reconfigs = 0
  /\ NoHandlerCall

NextConcurrent ==
  \/ \E in \in ConcurrentInputs : Post(connected, in)
  \/ \E i \in 1..MaxRequests, exec \in ExecOutcomes : Receive(i, exec)
  \/ \E i \in 1..MaxRequests : ExecResolve(i)
  \/ \E i \in 1..MaxRequests : ExecReject(i)

\* The event loop runs every callback that is ready: a delivered message is
\* dispatched, and the continuation of a handler whose command has ended runs.
SpecConcurrent ==
  /\ InitConcurrent
  /\ [][NextConcurrent]_vars
  /\ \A i \in 1..MaxRequests :
       /\ WF_vars(\E exec \in ExecOutcomes : Receive(i, exec))
       /\ WF_vars(ExecResolve(i) \/ ExecReject(i))

\* ------------------------------------------------------------- claims
\* The responses sent for request i.
ResponsesTo(i) == { sent[k] : k \in { j \in DOMAIN sent : sent[j].id = i } }

\* The lists the server has returned to ListCapabilities.
Listings == { sent[k].list : k \in { j \in DOMAIN sent : sent[j].result = "tools" } }

\* The Invoke requests the server has dispatched.
Invoked == { i \in DOMAIN reqs : reqs[i].kind = "invoke" /\ reqs[i].state # "posted" }

\* Invoke request i ended with NotFound and its handler was not called.
EndedNotFound(i) ==
  /\ ~reqs[i].handlerCalled
  /\ reqs[i].state = "done"
  /\ \A p \in ResponsesTo(i) : p.result = "NotFound"
  /\ ResponsesTo(i) # {}

\* C3: in mode readOnly a capability of the base list whose destructiveHint
\* is true is in no listing and every Invoke of it ends with NotFound, its
\* handler not called; GitToolsMcpServer constructed without toolsetConfig
\* is in mode readOnly.
C3_ReadOnlyHidesDestructive ==
  /\ (ctor = "GitToolsMcpServer" /\ config.toolsetConfig = "undefined")
       => mode = "readOnly"
  /\ mode = "readOnly" =>
       \A n \in Range(tools) :
         ToolDefinition(n).annotations.destructiveHint =>
           /\ \A l \in Listings : ~includes(l, n)
           /\ \A i \in Invoked : reqs[i].name = n => EndedNotFound(i)

C3_Witness ==
  /\ mode = "readOnly"
  /\ includes(tools, "destructive_tool")
  /\ \E i \in Invoked :
       /\ reqs[i].name = "destructive_tool"
       /\ reqs[i].args = PathOnly
       /\ EndedNotFound(i)

\* The allow-list of the configuration restricts: it is given and not empty.
Restricting == config.availableTools.present /\ Len(config.availableTools.v) > 0

\* C4: with a non-empty availableTools, a capability whose name is not in it
\* is in no listing and every Invoke of it ends with NotFound, in either
\* mode; a listed capability passes the allow-list check and the mode check.
C4_AllowListExcludes ==
  (ctor = "GitToolsMcpServer" /\ Restricting) =>
    /\ \A n \in Range(gitTools) :
         ~includes(config.availableTools.v, n) =>
           /\ \A l \in Listings : ~includes(l, n)
           /\ \A i \in Invoked : reqs[i].name = n => EndedNotFound(i)
    /\ \A l \in Listings : \A n \in Range(l) :
         /\ includes(config.availableTools.v, n)
         /\ mode = "readOnly" => ~ToolDefinition(n).annotations.destructiveHint

C4_Witness ==
  /\ ctor = "GitToolsMcpServer"
  /\ mode = "all"
  /\ config.availableTools = Given(<< "get_git_log" >>)
  /\ \E i \in Invoked :
       /\ reqs[i].name = "get_current_branch"
       /\ reqs[i].args = PathOnly
       /\ EndedNotFound(i)

\* C5: with availableTools absent or empty the registry is handed the whole
\* base list, and a listing is the whole base list in either mode.
C5_NoAllowListNoRestriction ==
  (ctor = "GitToolsMcpServer" /\ ~Restricting) =>
    /\ tools = gitTools
    /\ \A l \in Listings : l = gitTools

C5_Witness ==
  /\ ctor = "GitToolsMcpServer"
  /\ config.availableTools = Given(<< >>)
  /\ gitTools \in Listings

\* The place of a name in the base list (0: not in it).
IndexInGitTools(n) ==
  IF includes(gitTools, n)
    THEN CHOOSE k \in 1..Len(gitTools) : gitTools[k] = n
    ELSE 0

\* l holds capabilities of the base list only, in its order, each once.
SubsequenceOfGitTools(l) ==
  /\ \A k \in 1..Len(l) : IndexInGitTools(l[k]) > 0
  /\ \A j, k \in 1..Len(l) : j < k => IndexInGitTools(l[j]) < IndexInGitTools(l[k])

\* C6: under every configuration the list handed to the registry and every
\* listing is a subsequence of the base list; a name of the allow-list that
\* matches no capability adds nothing.
C6_ListingIsSubsequence ==
  ctor = "GitToolsMcpServer" =>
    /\ SubsequenceOfGitTools(tools)
    /\ \A l \in Listings : SubsequenceOfGitTools(l)

C6_Witness ==
  /\ ctor = "GitToolsMcpServer"
  /\ config.availableTools = Given(<< "no_such_tool", "get_git_log" >>)
  /\ << "get_git_log" >> \in Listings

\* The capability named by Invoke request i is advertised.
Advertised(i) ==
  /\ includes(tools, reqs[i].name)
  /\ mode = "readOnly" => reqs[i].name # "destructive_tool"

\* C7: an Invoke of a visible capability whose args omit path, which every
\* inputSchema requires, ends with ValidationError naming path, and the
\* handler is not called.
C7_MissingFieldIsValidationError ==
  \A i \in Invoked :
    (Advertised(i) /\ reqs[i].args["path"] = "absent") =>
      /\ ~reqs[i].handlerCalled
      /\ reqs[i].state = "done"
      /\ ResponsesTo(i) # {}
      /\ \A p \in ResponsesTo(i) : p.result = "ValidationError" /\ p.field = "path"

C7_Witness ==
  \E i \in Invoked :
    /\ reqs[i].name = "get_git_log"
    /\ reqs[i].args = [f \in Fields |-> IF f = "path" THEN "absent" ELSE "number"]
    /\ ~reqs[i].handlerCalled
    /\ \E p \in ResponsesTo(i) : p.result = "ValidationError" /\ p.field = "path"

\* The args of Invoke request i satisfy the inputSchema declared for its
\* name: path is a string, and the maxCount of get_git_log is a number or
\* omitted.
ArgsSatisfySchema(i) ==
  /\ reqs[i].args["path"] = "string"
  /\ reqs[i].name = "get_git_log" => reqs[i].args["maxCount"] \in {"absent", "number"}

\* C9: an Invoke of a name that is not advertised ends with NotFound whatever
\* its args; invalid args on an advertised capability end with
\* ValidationError, the handler not called; ToolExecutionError answers only
\* an advertised capability invoked with valid args; a request gets one
\* response, of one kind.
C9_ErrorPriority ==
  \A i \in Invoked :
    /\ Cardinality(ResponsesTo(i)) <= 1
    /\ reqs[i].state = "done" => Cardinality(ResponsesTo(i)) = 1
    /\ ~Advertised(i) => EndedNotFound(i)
    /\ (Advertised(i) /\ ~ArgsSatisfySchema(i)) =>
         /\ ~reqs[i].handlerCalled
         /\ \A p \in ResponsesTo(i) : p.result = "ValidationError"
         /\ ResponsesTo(i) # {}
    /\ \A p \in ResponsesTo(i) :
         p.result = "ToolExecutionError" =>
           Advertised(i) /\ ArgsSatisfySchema(i) /\ reqs[i].handlerCalled

C9_Witness ==
  /\ ctor = "GitToolsMcpServer"
  /\ config.availableTools = Given(<< "get_git_status" >>)
  /\ \E i \in Invoked :
       /\ reqs[i].name = "get_git_log"
       /\ reqs[i].args = [f \in Fields |-> IF f = "path" THEN "absent" ELSE "string"]
       /\ EndedNotFound(i)

\* C1: every message posted by a session is handled by that session's
\* transport, and every response is sent on the transport of the session
\* that posted the request.
C1_SessionIsolation ==
  /\ \A i \in DOMAIN reqs :
       reqs[i].state # "posted" => reqs[i].via = reqs[i].session
  /\ \A k \in DOMAIN sent : sent[k].on = reqs[sent[k].id].session

C8_FailureIsToolExecutionError ==
  \A i \in DOMAIN reqs :
    (reqs[i].exec = "fail" /\ reqs[i].state = "done") =>
      /\ ResponsesTo(i) # {}
      /\ \A p \in ResponsesTo(i) : p.result = "ToolExecutionError"

\* Every response answers a dispatched request of its own kind, on the
\* transport that delivered the request, and no request is answered twice.
Correlated ==
  /\ \A k \in DOMAIN sent :
       /\ sent[k].id \in DOMAIN reqs
       /\ reqs[sent[k].id].state = "done"
       /\ sent[k].on = reqs[sent[k].id].via
       /\ (sent[k].result = "tools") <=> (reqs[sent[k].id].kind = "list")
  /\ \A j, k \in DOMAIN sent : sent[j].id = sent[k].id => j = k

\* C10: every request sent on the connection is dispatched and, unless its
\* own command never returns, answered, whatever the other requests'
\* handlers do; each response is correlated to its request.
C10_SlowHandlerDoesNotBlock ==
  /\ []Correlated
  /\ \A i \in 1..MaxRequests :
       (i \in DOMAIN reqs)
         ~> (i \in DOMAIN reqs /\ (reqs[i].state = "done" \/ reqs[i].exec = "hang"))

\* Request 1 is suspended in a handler whose command never returns, and
\* request 2, sent after it, has been answered.
C10_Witness ==
  /\ Len(reqs) >= 2
  /\ reqs[1].state = "awaiting"
  /\ reqs[1].exec = "hang"
  /\ reqs[2].kind = "invoke"
  /\ reqs[2].exec = "ok"
  /\ reqs[2].state = "done"
  /\ \E p \in ResponsesTo(2) : p.result = "content"

\* ------------------------------------------------------- construction
MaxTools == 2

\* The capabilities a list given to McpServer may hold, by name.
CapabilityNames == Range(gitTools) \cup {destructiveTool.name}

\* Two capabilities of the list have the same name.
hasDuplicateNames(ts) ==
  \E j, k \in 1..Len(ts) : j # k /\ ts[j] = ts[k]

\* The constructors that have evaluated their arguments and not yet built
\* the registry.
Constructing == {"new GitToolsMcpServer", "new McpServer"}

\* The constructors that ended by throwing SchemaError: no instance exists.
SchemaErrors == {"GitToolsMcpServer: SchemaError", "McpServer: SchemaError"}

\* McpServer's constructor registers the capabilities it was given: it
\* throws SchemaError when two of them have the same name, and otherwise the
\* instance exists.
Construct ==
  /\ ctor \in Constructing
  /\ ctor' =
       IF hasDuplicateNames(tools)
         THEN IF ctor = "new GitToolsMcpServer"
                THEN "GitToolsMcpServer: SchemaError"
                ELSE "McpServer: SchemaError"
         ELSE IF ctor = "new GitToolsMcpServer"
                THEN "GitToolsMcpServer"
                ELSE "McpServer"
  /\ UNCHANGED << config, mode, tools, discovery, transport, connected, open,
                  reqs, sent, notes, reconfigs >>
  /\ UNCHANGED handlerVars

\* new GitToolsMcpServer(cfg) has evaluated the argument of super(...); new
\* McpServer(...) was given a mode and a list of capabilities.
InitConstruct ==
  /\ \/ \E cfg \in Configs :
          /\ ctor = "new GitToolsMcpServer"
          /\ config = cfg
          /\ mode = toolsetMode(cfg)
          /\ tools = capabilitiesTools(cfg)
          /\ discovery = dynamicToolDiscoveryEnabled(cfg)
     \/ \E m \in {"readOnly", "all"}, ts \in SeqsUpTo(CapabilityNames, MaxTools) :
          /\ ctor = "new McpServer"
          /\ config = [toolsetConfig |-> m, availableTools |-> Absent,
                       dynamicToolDiscovery |-> "enabled"]
          /\ mode = m
          /\ tools = ts
          /\ discovery = TRUE
  /\ transport = NoTransport
  /\ connected = NoTransport
  /\ open = {}
  /\ reqs = << >>
  /\ sent = << >>
  /\ notes = << >>
  /\ reconfigs = 0
  /\ NoHandlerCall

NextConstruct == Construct

SpecConstruct == InitConstruct /\ [][NextConstruct]_vars

\* C11: a construction from a list in which two capabilities have the same
\* name ends with SchemaError, so the registry of an instance holds no name
\* twice; the list GitToolsMcpServer hands over never repeats a name, so
\* its construction does not end with SchemaError.
C11_DuplicateNameIsSchemaError ==
  /\ ctor \in {"GitToolsMcpServer", "McpServer"} =>
       \A j, k \in 1..Len(tools) : tools[j] = tools[k] => j = k
  /\ (ctor \notin Constructing
        /\ \E j, k \in 1..Len(tools) : j < k /\ tools[j] = tools[k])
       => ctor \in SchemaErrors
  /\ ctor # "GitToolsMcpServer: SchemaError"

C11_Witness ==
  /\ ctor = "McpServer: SchemaError"
  /\ tools = << "get_git_log", "get_git_log" >>

\* ------------------------------------------- get_git_log, called directly
MaxCommits == 6

MaxCountArg == 6

\* const countArg = maxCount ? `-n ${maxCount}` : "": the limit put on the
\* command line; an omitted maxCount and the number 0 are both falsy.
countArg(mc) ==
  IF mc.present /\ mc.v # 0 THEN Supplied(mc.v) ELSE Omitted

\* git -C path log countArg --pretty=oneline: one line for each commit, the
\* newest first, at most the limit when one is given.
gitLogLines(c, arg) ==
  IF arg.present
    THEN IF arg.v < c THEN arg.v ELSE c
    ELSE c

\* The handler of get_git_log runs and its command resolves: the text
\* returned is the command's stdout.
GetGitLog ==
  /\ pc = "get_git_log"
  /\ stdout' = gitLogLines(commits, countArg(maxCount))
  /\ pc' = "returned"
  /\ UNCHANGED << ctor, config, mode, tools, discovery, transport, connected,
                  open, reqs, sent, notes, reconfigs, start, repos, failed,
                  current, found, commits, maxCount >>

\* The command rejects and the handler throws.
GetGitLogRejects ==
  /\ pc = "get_git_log"
  /\ pc' = "threw"
  /\ UNCHANGED << ctor, config, mode, tools, discovery, transport, connected,
                  open, reqs, sent, notes, reconfigs, start, repos, failed,
                  current, found, commits, maxCount, stdout >>

\* handler({ path, maxCount }) of get_git_log, on a repository of some
\* number of commits.
InitLog ==
  /\ GitToolsMcpServer([toolsetConfig |-> "undefined", availableTools |-> Absent,
                        dynamicToolDiscovery |-> "undefined"])
  /\ transport = NoTransport
  /\ connected = NoTransport
  /\ open = {}
  /\ reqs = << >>
  /\ sent = << >>
  /\ notes = << >>
  /\ reconfigs = 0
  /\ pc = "get_git_log"
  /\ commits \in 0..MaxCommits
  /\ maxCount \in {Omitted} \cup { Supplied(n) : n \in 0..MaxCountArg }
  /\ stdout = 0
  /\ start = 0
  /\ repos = {}
  /\ failed = {}
  /\ current = 0
  /\ found = << >>

NextLog == GetGitLog \/ GetGitLogRejects

SpecLog == InitLog /\ [][NextLog]_vars

\* C12: the text get_git_log returns holds never more than maxCount commit
\* summaries, exactly maxCount on a repository of at least maxCount commits,
\* and every commit when maxCount is omitted.
C12_MaxCountLimitsTheLog ==
  pc = "returned" =>
    /\ maxCount.present => stdout <= maxCount.v
    /\ (maxCount.present /\ commits >= maxCount.v) => stdout = maxCount.v
    /\ ~maxCount.present => stdout = commits

\* ------------------------------ get_git_repos_from_path, called directly
MaxDepth == 3

\* The directories of the chain above the deepest start path, each named by
\* its depth: the parent of a directory is one less deep, and the root is
\* the directory of depth 0.
Dirs == 0..MaxDepth

\* require("path").dirname: the parent directory; the root is its own parent.
dirname(d) == IF d = 0 THEN d ELSE d - 1

\* [ -d "${gitDir}" ] && echo found || echo notfound, stdout.trim()
probeStdout(d, rs) == IF d \in rs THEN "found" ELSE "notfound"

\* Faulty variant of the push: the directory is put in front.
unshiftIfFound(fnd, cur, out) ==
  IF out = "found" THEN << cur >> \o fnd ELSE fnd

\* if (stdout.trim() === "found") found.push(current)
pushIfFound(fnd, cur, out) ==
  IF out = "found" THEN Append(fnd, cur) ELSE fnd

\* JSON.stringify(found): the text of a JSON array of the paths, in order.
JSONstringify(fnd) == [json |-> "array", items |-> fnd]

\* const parent = dirname(current); if (parent === current) break;
\* current = parent: the place the loop goes on from, and its directory.
afterProbes(cur) == IF dirname(cur) = cur THEN "returned" ELSE "probe1"

nextCurrent(cur) == IF dirname(cur) = cur THEN cur ELSE dirname(cur)

\* The first await execAsync(probe) of the try block, whose result is not
\* read: when it rejects, catch {} ends the try block.
ProbeFirst(o) ==
  /\ pc = "probe1"
  /\ IF o = "rejects"
       THEN /\ failed' = failed \cup {current}
            /\ pc' = afterProbes(current)
            /\ current' = nextCurrent(current)
       ELSE /\ pc' = "probe2"
            /\ UNCHANGED << failed, current >>
  /\ UNCHANGED << ctor, config, mode, tools, discovery, transport, connected,
                  open, reqs, sent, notes, reconfigs, start, repos, found,
                  commits, maxCount, stdout >>

\* The second await execAsync(probe), whose stdout decides the push; then
\* the step to the parent, or the break and the return.
ProbeSecond(o) ==
  /\ pc = "probe2"
  /\ IF o = "rejects"
       THEN /\ failed' = failed \cup {current}
            /\ found' = found
       ELSE /\ found' = pushIfFound(found, current, probeStdout(current, repos))
            /\ failed' = failed
  /\ pc' = afterProbes(current)
  /\ current' = nextCurrent(current)
  /\ UNCHANGED << ctor, config, mode, tools, discovery, transport, connected,
                  open, reqs, sent, notes, reconfigs, start, repos,
                  commits, maxCount, stdout >>

\* handler({ path }) of get_git_repos_from_path: found is empty and current
\* is the resolved start path.
InitWalk ==
  /\ GitToolsMcpServer([toolsetConfig |-> "undefined", availableTools |-> Absent,
                        dynamicToolDiscovery |-> "undefined"])
  /\ transport = NoTransport
  /\ connected = NoTransport
  /\ open = {}
  /\ reqs = << >>
  /\ sent = << >>
  /\ notes = << >>
  /\ reconfigs = 0
  /\ pc = "probe1"
  /\ start \in Dirs
  /\ repos \in SUBSET Dirs
  /\ failed = {}
  /\ current = start
  /\ found = << >>
  /\ commits = 0
  /\ maxCount = Omitted
  /\ stdout = 0

ProbeOutcomes == {"resolves", "rejects"}

NextWalk ==
  \/ \E o \in ProbeOutcomes : ProbeFirst(o)
  \/ \E o \in ProbeOutcomes : ProbeSecond(o)

\* Every probe command ends, and the handler's continuation then runs.
SpecWalk == InitWalk /\ [][NextWalk]_vars /\ WF_vars(NextWalk)

\* The directories from the start path up to the root, the start first.
ChainFromStart == [k \in 1..(start + 1) |-> start + 1 - k]

\* C13: the handler of get_git_repos_from_path returns, at the directory
\* that is its own parent; what it returns is the JSON array of the
\* directories from the start path up to the root that hold a .git
\* directory and at which no probe failed, the start first; a probe failure
\* never makes the handler fail.
C13_WalkReturnsReposStartFirst ==
  /\ [](pc \in {"probe1", "probe2", "returned"})
  /\ [](pc = "returned" =>
          /\ current = dirname(current)
          /\ JSONstringify(found) =
               [json |-> "array",
                items |-> SelectSeq(ChainFromStart,
                                    LAMBDA d : d \in repos /\ d \notin failed)])
  /\ <>(pc = "returned")

\* The handler has returned two repositories after a walk in which the
\* probe of a third failed.
C13_Witness ==
  /\ pc = "returned"
  /\ Len(found) = 2
  /\ found[1] > found[2]
  /\ \E d \in failed : d \in repos /\ d < found[1] /\ d > found[2]

====
